---- MODULE Spec2Model ----
(***************************************************************************)
(* A model of the label-checker QC pipeline (package qc_pipeline):         *)
(*   - GeminiValidator: _execute_request, _parse_candidate, validate_crop  *)
(*     and validate_batch (gemini_validator.py);                           *)
(*   - CocoDataset.iter_annotations (data_loader.py).                      *)
(*                                                                         *)
(* Seven specifications share the module's variables:                      *)
(*   Spec       one validate_batch call, each item going through the       *)
(*              retry loop of validate_crop against a nondeterministic     *)
(*              remote service;                                            *)
(*   SpecParse  _parse_candidate applied to one payload drawn from a       *)
(*              bounded set of payloads;                                   *)
(*   SpecIter   the generator iter_annotations driven over one dataset     *)
(*              drawn from a bounded set of datasets;                      *)
(*   SpecLoad   load_coco_dataset reading one annotation entry;            *)
(*   SpecCrop   crop_annotation (image_utils.py) on one image, annotation  *)
(*              and config;                                                *)
(*   SpecRun    one run of run_validation or of the demo's run_demo;       *)
(*   SpecSummary  _build_summary on one list of entries.                   *)
(***************************************************************************)
EXTENDS Integers, Sequences, FiniteSets, TLC

VARIABLES
    \* ---- GeminiValidator (Spec) ----
    max_retries,    \* self.max_retries
    items,          \* the items handed to validate_batch
    pc,             \* position of the call: batch | loop | parse | except | done | failed
    idx,            \* index (1-based) of the item validate_batch is working on
    attempt,        \* the local attempt of validate_crop
    exc,            \* the exception in flight (bound to exc by the except clause)
    payload,        \* the payload _execute_request returned to validate_crop
    responses,      \* the local responses of validate_batch
    result,         \* what validate_batch gave its caller: nothing yet, a list, or an exception
    http,           \* log: the HTTP exchange of the latest request
    parsed_last,    \* log: whether the latest request's body reached _parse_candidate
    reqs,           \* log: requests issued per item
    slept,          \* log: the time.sleep arguments of the current validate_crop call
    first_kind,     \* log: the kind of the exception the first attempt of the current call raised
    fails,          \* log: the attempts of the current call that raised
    \* ---- _parse_candidate (SpecParse) ----
    p_shape,        \* the input: how the payload is laid out
    p_state,        \* ready | done
    p_out,          \* the outcome of _parse_candidate
    \* ---- iter_annotations (SpecIter) ----
    ds,             \* the CocoDataset
    it_pos,         \* the generator's position in self._annotations
    it_state,       \* suspended | raised | exhausted
    it_yielded,     \* log: the triples yielded so far
    it_error,       \* the exception the generator raised
    \* ---- load_coco_dataset (SpecLoad) ----
    l_src,          \* the segmentation of the annotation entry in the source file
    l_state,        \* ready | done
    l_stored,       \* the segmentation of the Annotation the loader stored
    \* ---- crop_annotation (SpecCrop) ----
    c_image,        \* the source image: its width and height
    c_ann,          \* the annotation: its bbox and its segmentation
    c_cfg,          \* the CropConfig
    c_state,        \* ready | done
    c_out,          \* the outcome of crop_annotation
    \* ---- run_validation and run_demo (SpecRun) ----
    r_mode,         \* which of the two runs: validation | demo
    r_ds,           \* the CocoDataset of the run
    r_pos,          \* the position of the for loop in the annotations
    r_state,        \* running | finally | done | failed
    r_cache,        \* the keys of image_cache
    r_decodes,      \* log: how often each image_id was opened and decoded
    r_closed,       \* log: the cached images that were closed
    r_entries,      \* the number of entries (results) recorded
    r_exc,          \* the exception in flight
    \* ---- _build_summary (SpecSummary) ----
    s_entries,      \* the entries handed to _build_summary
    s_state,        \* ready | done
    s_summary       \* the summary returned

retryVars == <<max_retries, items, pc, idx, attempt, exc, payload, responses,
               result, http, parsed_last, reqs, slept, first_kind, fails>>
parseVars == <<p_shape, p_state, p_out>>
iterVars  == <<ds, it_pos, it_state, it_yielded, it_error>>
loadVars  == <<l_src, l_state, l_stored>>
cropVars  == <<c_image, c_ann, c_cfg, c_state, c_out>>
runVars   == <<r_mode, r_ds, r_pos, r_state, r_cache, r_decodes, r_closed, r_entries, r_exc>>
sumVars   == <<s_entries, s_state, s_summary>>
vars      == <<retryVars, parseVars, iterVars, loadVars, cropVars, runVars, sumVars>>

(***************************************************************************)
(* Bounds of the model.                                                    *)
(***************************************************************************)
MaxRetries == 7     \* the largest max_retries tried (the 30 s cap needs 7)
MaxItems   == 2     \* the longest batch
MaxWs      == 1     \* whitespace characters on each side of a text
MaxAnns    == 3     \* the longest annotation list
MaxId      == 2     \* image and category ids are 1..MaxId

Min(a, b) == IF a <= b THEN a ELSE b
Max(a, b) == IF a >= b THEN a ELSE b

RECURSIVE Pow2(_)
Pow2(n) == IF n <= 0 THEN 1 ELSE 2 * Pow2(n - 1)

(***************************************************************************)
(* Python values.  A JSON value decoded by json.loads is a Python value;   *)
(* every value of the model is a record of the same shape so that values   *)
(* of different Python types can be compared.                              *)
(*   t: NoneType | bool | int | float | str | list | dict                  *)
(*   s: the string of a str                                                *)
(*   n: the number: an int's value, a float's value in hundredths, a       *)
(*      bool's 0/1                                                         *)
(***************************************************************************)
PyNone       == [t |-> "NoneType", s |-> "", n |-> 0]
PyBool(b)    == [t |-> "bool", s |-> "", n |-> IF b THEN 1 ELSE 0]
PyInt(n)     == [t |-> "int", s |-> "", n |-> n]
PyFloat(h)   == [t |-> "float", s |-> "", n |-> h]
PyStr(s)     == [t |-> "str", s |-> s, n |-> 0]
PyList       == [t |-> "list", s |-> "", n |-> 0]
PyDict       == [t |-> "dict", s |-> "", n |-> 0]

\* A key that a JSON object does not have.
Absent       == [t |-> "absent", s |-> "", n |-> 0]

\* dict.get(key): None when the key is absent.
DictGet(v) == IF v.t = "absent" THEN PyNone ELSE v

\* isinstance(v, str)
IsStr(v) == v.t = "str"

\* isinstance(v, (int, float)): bool is a subclass of int.
IsIntOrFloat(v) == v.t \in {"bool", "int", "float"}

\* Mutant: the confidence clamped to [0, 1].
ToFloatClamped(v) ==
    LET h == IF v.t = "float" THEN v.n ELSE 100 * v.n
    IN  Max(0, Min(100, h))

\* float(v) for an int, a bool or a float, in hundredths.  float() of an int
\* is exact up to 2^53, beyond every integer of the model.
ToFloat(v) == IF v.t = "float" THEN v.n ELSE 100 * v.n

(***************************************************************************)
(* JSON documents: the top-level value of a model answer.  An object       *)
(* carries the three keys the parser reads; any other top-level value      *)
(* carries none.                                                           *)
(***************************************************************************)
JsonObject(label, conf, rat) ==
    [t |-> "dict", prediction_label |-> label, confidence |-> conf, rationale |-> rat]
JsonOther(t) ==
    [t |-> t, prediction_label |-> Absent, confidence |-> Absent, rationale |-> Absent]
NoDoc == JsonOther("none")

(***************************************************************************)
(* Text: a sequence of characters.  A character is a plain character or    *)
(* the serialization of one JSON document (ch = "JSON"), which stands for  *)
(* the characters json.dumps would write for it.                           *)
(***************************************************************************)
Ch(c)     == [ch |-> c, doc |-> NoDoc]
DocCh(d)  == [ch |-> "JSON", doc |-> d]
Str(cs)   == [i \in 1..Len(cs) |-> Ch(cs[i])]

Whitespace == {" ", "\n"}
IsWs(c) == c.ch \in Whitespace

\* The backtick is written "bt".
Fence     == Str(<<"bt", "bt", "bt">>)
FenceJson == Str(<<"bt", "bt", "bt", "j", "s", "o", "n">>)

RECURSIVE LStrip(_)
LStrip(s) == IF s # <<>> /\ IsWs(Head(s)) THEN LStrip(Tail(s)) ELSE s

RECURSIVE RStrip(_)
RStrip(s) ==
    IF s # <<>> /\ IsWs(s[Len(s)]) THEN RStrip(SubSeq(s, 1, Len(s) - 1)) ELSE s

\* str.strip()
Strip(s) == RStrip(LStrip(s))

\* str.startswith / str.endswith
StartsWith(s, p) == Len(s) >= Len(p) /\ SubSeq(s, 1, Len(p)) = p
EndsWith(s, p)   == Len(s) >= Len(p) /\ SubSeq(s, Len(s) - Len(p) + 1, Len(s)) = p

\* text[k:] and text[:-k]
DropFirst(s, k) == SubSeq(s, k + 1, Len(s))
DropLast(s, k)  == SubSeq(s, 1, Len(s) - k)

\* Strip markdown code fences if present, then strip whitespace.
StripFences(text) ==
    LET a == IF StartsWith(text, FenceJson) THEN DropFirst(text, 7)
             ELSE IF StartsWith(text, Fence) THEN DropFirst(text, 3)
             ELSE text
        b == IF EndsWith(a, Fence) THEN DropLast(a, 3) ELSE a
    IN  Strip(b)

\* json.loads(text): the document when the text (whitespace around it
\* allowed) is exactly one serialized document, JSONDecodeError otherwise.
JsonLoads(text) ==
    LET t == Strip(text)
    IN  IF Len(t) = 1 /\ t[1].ch = "JSON"
        THEN [ok |-> TRUE, doc |-> t[1].doc]
        ELSE [ok |-> FALSE, doc |-> NoDoc]

(***************************************************************************)
(* Exceptions and responses.                                               *)
(***************************************************************************)
Exc(kind, msg) == [kind |-> kind, msg |-> msg]
NoExc == Exc("none", "")

NoRationale == [some |-> FALSE, s |-> ""]
GeminiResponse(label, conf, rat, raw) ==
    [prediction_label |-> label, confidence |-> conf, rationale |-> rat, raw_text |-> raw]
NoResponse == GeminiResponse("", 0, NoRationale, <<>>)

Returned(r) == [ok |-> TRUE,  resp |-> r,          exc |-> NoExc]
Raised(e)   == [ok |-> FALSE, resp |-> NoResponse, exc |-> e]

(***************************************************************************)
(* Payloads: the decoded body of the answer of the service.  A payload holds    *)
(* its candidates, a candidate its content parts, a part its text; a       *)
(* missing key reads as the empty list (the empty string for text).        *)
(***************************************************************************)
Part(text)         == [text |-> text]
Candidate(parts)   == [parts |-> parts]
Payload(cands)     == [candidates |-> cands]
TextPayload(text)  == Payload(<<Candidate(<<Part(text)>>)>>)
NoPayload          == Payload(<<>>)

\* GeminiValidator._parse_candidate
parse_candidate(p) ==
    IF p.candidates = <<>>
    THEN Raised(Exc("ValueError", "Gemini response missing candidates"))
    ELSE LET parts == p.candidates[1].parts IN
    IF parts = <<>>
    THEN Raised(Exc("ValueError", "Gemini response missing content parts"))
    ELSE LET text == Strip(parts[1].text) IN
    IF text = <<>>
    THEN Raised(Exc("ValueError", "Gemini response missing text output"))
    ELSE LET stripped == StripFences(text)
             loaded   == JsonLoads(stripped)
         IN
    IF ~loaded.ok
    THEN Raised(Exc("ValueError", "Gemini response not valid JSON"))
    ELSE LET parsed == loaded.doc IN
    IF parsed.t # "dict"
    THEN Raised(Exc("AttributeError", "object has no attribute get"))
    ELSE LET label      == DictGet(parsed.prediction_label)
             confidence == DictGet(parsed.confidence)
             rationale  == DictGet(parsed.rationale)
         IN
    IF ~IsStr(label)
    THEN Raised(Exc("ValueError", "Gemini JSON missing prediction_label string"))
    ELSE IF ~IsIntOrFloat(confidence)
    THEN Raised(Exc("ValueError", "Gemini JSON missing numeric confidence"))
    ELSE Returned(GeminiResponse(
            label.s,
            ToFloat(confidence),
            IF IsStr(rationale) THEN [some |-> TRUE, s |-> rationale.s] ELSE NoRationale,
            stripped))

(***************************************************************************)
(* SpecParse: _parse_candidate on one payload.                             *)
(*                                                                         *)
(* The input is a layout: the structure of the payload and, for a payload  *)
(* with text, the text's pieces in order: lead whitespace, an opening      *)
(* fence, whitespace, the body, whitespace, a closing fence, trailing      *)
(* whitespace.  Render writes the layout out as the payload the service    *)
(* would send.                                                             *)
(***************************************************************************)
Labels      == {PyStr("cat"), PyStr(""), Absent, PyNone, PyInt(1)}
Confidences == {PyFloat(87), PyFloat(150), PyFloat(-20), PyInt(1), PyInt(2),
                PyBool(TRUE), PyStr("0.9"), Absent, PyNone}
Rationales  == {PyStr("why"), Absent, PyNone, PyInt(3)}

JsonDocs ==
    {JsonObject(l, c, r) : l \in Labels, c \in Confidences, r \in Rationales}
    \cup {JsonOther("list"), JsonOther("str"), JsonOther("int"), JsonOther("NoneType")}

Bodies == {<<DocCh(d)>> : d \in JsonDocs} \cup {<<>>, Str(<<"n", "o">>)}

Spaces(n, c) == [i \in 1..n |-> Ch(c)]

OpenFence(o) ==
    CASE o = "none"  -> <<>>
      [] o = "fence" -> Fence
      [] o = "json"  -> FenceJson

Layouts ==
    [struct : {"text"}, lead : 0..MaxWs, open : {"none", "fence", "json"},
     pre : 0..MaxWs, body : Bodies, post : 0..MaxWs, close : BOOLEAN,
     trail : 0..MaxWs]
    \cup
    [struct : {"no_candidates", "no_parts"}, lead : {0}, open : {"none"},
     pre : {0}, body : {<<>>}, post : {0}, close : {FALSE}, trail : {0}]

RenderText(l) ==
    Spaces(l.lead, " ") \o OpenFence(l.open) \o Spaces(l.pre, "\n") \o l.body
    \o Spaces(l.post, "\n") \o (IF l.close THEN Fence ELSE <<>>) \o Spaces(l.trail, " ")

Render(l) ==
    CASE l.struct = "no_candidates" -> Payload(<<>>)
      [] l.struct = "no_parts"      -> Payload(<<Candidate(<<>>)>>)
      [] l.struct = "text"          -> TextPayload(RenderText(l))

NoOutcome == [ok |-> FALSE, resp |-> NoResponse, exc |-> NoExc]

IdleLayout ==
    [struct |-> "idle", lead |-> 0, open |-> "none", pre |-> 0, body |-> <<>>,
     post |-> 0, close |-> FALSE, trail |-> 0]

ParseIdle == p_shape = IdleLayout /\ p_state = "idle" /\ p_out = NoOutcome

InitParse ==
    /\ p_shape \in Layouts
    /\ p_state = "ready"
    /\ p_out = NoOutcome

\* One call validator._parse_candidate(payload).
parse_candidate_call ==
    /\ p_state = "ready"
    /\ p_out' = parse_candidate(Render(p_shape))
    /\ p_state' = "done"
    /\ UNCHANGED p_shape
    /\ UNCHANGED <<retryVars, iterVars, loadVars, cropVars, runVars, sumVars>>

(***************************************************************************)
(* Spec: validate_batch over its items, validate_crop's retry loop per     *)
(* item, against a remote service whose answer to each request is chosen   *)
(* nondeterministically.                                                   *)
(***************************************************************************)

\* The items of a batch: item i carries crop i.  Every item has both keys.
Item(i) == [crop_bytes |-> ToString(i), expected_label |-> "cat"]
Batch(n) == [i \in 1..n |-> Item(i)]

\* GeminiValidator._build_request_body: the prompt names the expected label,
\* the inline data is the crop.
build_request_body(item) ==
    [expected_label |-> item.expected_label, data |-> item.crop_bytes]

\* The answers of the service to one request.  An answer that judges the
\* crop names the crop it judged in its rationale.
ServicePayloads(body) ==
    { TextPayload(<<DocCh(JsonObject(PyStr(body.expected_label), PyFloat(87),
                                     PyStr(body.data)))>>),
      TextPayload(FenceJson \o Spaces(1, "\n")
                  \o <<DocCh(JsonObject(PyStr("dog"), PyInt(1), PyStr(body.data)))>>
                  \o Spaces(1, "\n") \o Fence),
      Payload(<<>>),
      Payload(<<Candidate(<<>>)>>),
      TextPayload(<<>>),
      TextPayload(Str(<<"n", "o">>)),
      TextPayload(<<DocCh(JsonOther("list"))>>),
      TextPayload(<<DocCh(JsonObject(PyStr("cat"), Absent, Absent))>>) }

\* HTTP statuses the service (or a proxy in front of it) answers with.
Statuses == {200, 203, 300, 429, 500}
\* Statuses whose response carries a body of the sender's choice.
BodyStatuses == {200, 203, 300}

HttpResponse(status, is_json, p) ==
    [raised |-> FALSE, status |-> status, is_json |-> is_json, payload |-> p]
\* requests.post itself raising (connection error, timeout).
HttpNoResponse ==
    [raised |-> TRUE, status |-> 0, is_json |-> FALSE, payload |-> NoPayload]

HttpOutcomes(body) ==
    {HttpNoResponse}
    \cup {HttpResponse(s, TRUE, p) : s \in BodyStatuses, p \in ServicePayloads(body)}
    \cup {HttpResponse(s, FALSE, NoPayload) : s \in Statuses}

\* requests.Response.raise_for_status: HTTPError for 4xx and 5xx only.
RaiseForStatus(status) == 400 <= status /\ status < 600

Fetched(p)   == [ok |-> TRUE,  payload |-> p,         exc |-> NoExc]
FetchFail(e) == [ok |-> FALSE, payload |-> NoPayload, exc |-> e]

\* GeminiValidator._execute_request, given what requests.post did.
execute_request(h) ==
    IF h.raised
    THEN FetchFail(Exc("RequestException", "ConnectionError"))
    ELSE IF h.status # 200 /\ RaiseForStatus(h.status)
    THEN FetchFail(Exc("RequestException", "HTTPError"))
    ELSE IF ~h.is_json
    THEN FetchFail(Exc("RequestException", "JSONDecodeError"))
    ELSE Fetched(h.payload)

\* except (requests.RequestException, ValueError)
Caught(e) == e.kind \in {"RequestException", "ValueError"}

\* Mutant: one attempt more than max_retries.
ExhaustedLate(a, m) == a > m

\* if attempt >= self.max_retries
Exhausted(a, m) == a >= m

\* Mutant: no cap.
SleepSecondsUncapped(a) == Pow2(a - 1)

\* sleep_seconds = min(2 ** (attempt - 1), 30)
SleepSeconds(a) == Min(Pow2(a - 1), 30)

\* Mutant: the exception is wrapped.
PropagatedWrapped(e) == Exc("RuntimeError", e.msg)

\* The bare raise of the except clause: the exception being handled.
Propagated(e) == e

\* Mutant: the attempts of the previous item carry over.
InitialAttemptCarried(prev) == prev

\* attempt = 0 at the start of each validate_crop call.
InitialAttempt(prev) == 0

NoResult     == [kind |-> "none",   value |-> <<>>, exc |-> NoExc]
ReturnList(l) == [kind |-> "return", value |-> l,    exc |-> NoExc]
RaiseOut(e)  == [kind |-> "raise",  value |-> <<>>, exc |-> e]

RetryValues == -1..MaxRetries

RetryIdle ==
    /\ max_retries = 0 /\ items = <<>> /\ pc = "idle" /\ idx = 0 /\ attempt = 0
    /\ exc = NoExc /\ payload = NoPayload /\ responses = <<>> /\ result = NoResult
    /\ http = HttpNoResponse /\ parsed_last = FALSE /\ reqs = <<>> /\ slept = <<>>
    /\ first_kind = "none" /\ fails = 0

InitRetry ==
    /\ max_retries \in RetryValues
    /\ \E n \in 0..MaxItems : items = Batch(n) /\ reqs = [i \in 1..n |-> 0]
    /\ pc = "batch"
    /\ idx = 0
    /\ attempt = 0
    /\ exc = NoExc
    /\ payload = NoPayload
    /\ responses = <<>>
    /\ result = NoResult
    /\ http = HttpNoResponse
    /\ parsed_last = FALSE
    /\ slept = <<>>
    /\ first_kind = "none"
    /\ fails = 0

\* validate_batch: the head of the for loop.  The next item enters
\* validate_crop (body built, attempt = 0); with no item left the list is
\* returned.
validate_batch_next ==
    /\ pc = "batch"
    /\ IF idx < Len(items)
       THEN /\ idx' = idx + 1
            /\ attempt' = InitialAttempt(attempt)
            /\ pc' = "loop"
            /\ slept' = <<>>
            /\ first_kind' = "none"
            /\ fails' = 0
            /\ UNCHANGED result
       ELSE /\ result' = ReturnList(responses)
            /\ pc' = "done"
            /\ UNCHANGED <<idx, attempt, slept, first_kind, fails>>
    /\ payload' = NoPayload
    /\ http' = HttpNoResponse
    /\ parsed_last' = FALSE
    /\ UNCHANGED <<max_retries, items, exc, responses, reqs>>
    /\ UNCHANGED <<parseVars, iterVars, loadVars, cropVars, runVars, sumVars>>

\* validate_crop: attempt += 1; payload = self._execute_request(body).
validate_crop_request ==
    /\ pc = "loop"
    /\ \E h \in HttpOutcomes(build_request_body(items[idx])) :
         LET r == execute_request(h) IN
         /\ attempt' = attempt + 1
         /\ reqs' = [reqs EXCEPT ![idx] = @ + 1]
         /\ http' = h
         /\ parsed_last' = FALSE
         /\ IF r.ok
            THEN /\ payload' = r.payload
                 /\ pc' = "parse"
                 /\ UNCHANGED <<exc, first_kind, fails>>
            ELSE /\ exc' = r.exc
                 /\ pc' = "except"
                 /\ first_kind' = IF attempt' = 1 THEN r.exc.kind ELSE first_kind
                 /\ fails' = fails + 1
                 /\ UNCHANGED payload
    /\ UNCHANGED <<max_retries, items, idx, responses, result, slept>>
    /\ UNCHANGED <<parseVars, iterVars, loadVars, cropVars, runVars, sumVars>>

\* validate_crop: return self._parse_candidate(payload); on return
\* validate_batch appends the response.
validate_crop_parse ==
    /\ pc = "parse"
    /\ LET r == parse_candidate(payload) IN
         /\ parsed_last' = TRUE
         /\ IF r.ok
            THEN /\ responses' = Append(responses, r.resp)
                 /\ pc' = "batch"
                 /\ UNCHANGED <<exc, first_kind, fails>>
            ELSE /\ exc' = r.exc
                 /\ pc' = "except"
                 /\ first_kind' = IF attempt = 1 THEN r.exc.kind ELSE first_kind
                 /\ fails' = fails + 1
                 /\ UNCHANGED responses
    /\ UNCHANGED <<max_retries, items, idx, attempt, payload, result, http, reqs, slept>>
    /\ UNCHANGED <<parseVars, iterVars, loadVars, cropVars, runVars, sumVars>>

\* validate_crop: the exception of the attempt meets the except clause.  One
\* the clause does not name leaves validate_crop, and validate_batch, at
\* once; one it names is raised again when the attempts are used up, and
\* otherwise slept on before the next attempt (the name exc is unbound at
\* the end of the clause, and the logs of the attempt are closed).
validate_crop_except ==
    /\ pc = "except"
    /\ IF ~Caught(exc)
       THEN /\ result' = RaiseOut(exc)
            /\ pc' = "failed"
            /\ UNCHANGED <<slept, exc, payload, http, parsed_last>>
       ELSE IF Exhausted(attempt, max_retries)
       THEN /\ result' = RaiseOut(Propagated(exc))
            /\ pc' = "failed"
            /\ UNCHANGED <<slept, exc, payload, http, parsed_last>>
       ELSE /\ slept' = Append(slept, SleepSeconds(attempt))
            /\ pc' = "loop"
            /\ exc' = NoExc
            /\ payload' = NoPayload
            /\ http' = HttpNoResponse
            /\ parsed_last' = FALSE
            /\ UNCHANGED result
    /\ UNCHANGED <<max_retries, items, idx, attempt, responses, reqs, first_kind, fails>>
    /\ UNCHANGED <<parseVars, iterVars, loadVars, cropVars, runVars, sumVars>>

IterIdle ==
    /\ ds = [images |-> <<>>, categories |-> <<>>, annotations |-> <<>>] /\ it_pos = 0 /\ it_state = "idle" /\ it_yielded = <<>>
    /\ it_error = NoExc

LoadIdle == l_src = <<>> /\ l_state = "idle" /\ l_stored = <<>>

CropIdle ==
    /\ c_image = <<>> /\ c_ann = <<>> /\ c_cfg = <<>> /\ c_state = "idle" /\ c_out = <<>>

RunIdle ==
    /\ r_mode = "none" /\ r_ds = <<>> /\ r_pos = 0 /\ r_state = "idle" /\ r_cache = {}
    /\ r_decodes = <<>> /\ r_closed = {} /\ r_entries = 0 /\ r_exc = NoExc

SummaryIdle == s_entries = <<>> /\ s_state = "idle" /\ s_summary = <<>>

\* The variables of the other specifications stay idle.
OthersIdle == LoadIdle /\ CropIdle /\ RunIdle /\ SummaryIdle

Init == InitRetry /\ ParseIdle /\ IterIdle /\ OthersIdle

Next ==
    \/ validate_batch_next
    \/ validate_crop_request
    \/ validate_crop_parse
    \/ validate_crop_except

Spec == Init /\ [][Next]_vars

InitParseSpec == RetryIdle /\ InitParse /\ IterIdle /\ OthersIdle
NextParse == parse_candidate_call
SpecParse == InitParseSpec /\ [][NextParse]_vars

(***************************************************************************)
(* SpecIter: the generator CocoDataset.iter_annotations over one dataset.  *)
(* load_coco_dataset keys every image and category by its id; annotation   *)
(* k of the list has id k.                                                 *)
(***************************************************************************)
ImageInfo(i) == [id |-> i, file_name |-> ToString(i)]
Category(c)  == [id |-> c, name |-> ToString(c)]
Annotation(k, image_id, category_id) ==
    [id |-> k, image_id |-> image_id, category_id |-> category_id]

AnnotationLists ==
    UNION { [1..n -> (1..MaxId) \X (1..MaxId)] : n \in 0..MaxAnns }

CocoDataset(ni, nc, refs) ==
    [images      |-> [i \in 1..ni |-> ImageInfo(i)],
     categories  |-> [c \in 1..nc |-> Category(c)],
     annotations |-> [k \in 1..Len(refs) |-> Annotation(k, refs[k][1], refs[k][2])]]

Datasets ==
    {CocoDataset(ni, nc, refs) : ni \in 0..MaxId, nc \in 0..MaxId, refs \in AnnotationLists}

NoTriple == [image |-> ImageInfo(0), annotation |-> Annotation(0, 0, 0),
             category |-> Category(0)]
Yield(i, a, c) == [kind |-> "yield", triple |-> [image |-> i, annotation |-> a, category |-> c],
                   exc |-> NoExc]
IterRaise(e)   == [kind |-> "raise", triple |-> NoTriple, exc |-> e]
IterSkip       == [kind |-> "skip",  triple |-> NoTriple, exc |-> NoExc]

\* Mutant: an annotation with a dangling reference is skipped.
iter_bodySkipping(d, ann) ==
    IF ann.image_id \notin DOMAIN d.images \/ ann.category_id \notin DOMAIN d.categories
    THEN IterSkip
    ELSE Yield(d.images[ann.image_id], ann, d.categories[ann.category_id])

\* The body of the for loop of iter_annotations, for one annotation.
iter_body(d, ann) ==
    IF ann.image_id \notin DOMAIN d.images
    THEN IterRaise(Exc("KeyError", "references missing image"))
    ELSE IF ann.category_id \notin DOMAIN d.categories
    THEN IterRaise(Exc("KeyError", "references missing category"))
    ELSE Yield(d.images[ann.image_id], ann, d.categories[ann.category_id])

InitIter ==
    /\ ds \in Datasets
    /\ it_pos = 0
    /\ it_state = "suspended"
    /\ it_yielded = <<>>
    /\ it_error = NoExc

\* One step of the generator: the loop takes the next annotation and runs
\* its body, or ends when none is left.
iter_annotations_next ==
    /\ it_state = "suspended"
    /\ IF it_pos < Len(ds.annotations)
       THEN LET r == iter_body(ds, ds.annotations[it_pos + 1]) IN
            /\ it_pos' = it_pos + 1
            /\ it_state' = IF r.kind = "raise" THEN "raised" ELSE "suspended"
            /\ it_yielded' = IF r.kind = "yield" THEN Append(it_yielded, r.triple)
                             ELSE it_yielded
            /\ it_error' = r.exc
       ELSE /\ it_state' = "exhausted"
            /\ UNCHANGED <<it_pos, it_yielded, it_error>>
    /\ UNCHANGED ds
    /\ UNCHANGED <<retryVars, parseVars, loadVars, cropVars, runVars, sumVars>>

InitIterSpec == RetryIdle /\ ParseIdle /\ InitIter /\ OthersIdle
NextIter == iter_annotations_next
SpecIter == InitIterSpec /\ [][NextIter]_vars

(***************************************************************************)
(* Claims about validate_crop and validate_batch (Spec).                   *)
(***************************************************************************)
\* The validate_crop call of item idx has returned / has failed.
CallReturned == pc \in {"batch", "done"} /\ idx >= 1
CallFailed   == pc = "failed"

\* C1: for max_retries >= 1, a call whose first k attempts fail and whose
\* attempt k+1 succeeds returns after exactly k+1 requests, and a call that
\* fails has made exactly max_retries requests, every one of them failed.
C1_RetryCount ==
    max_retries >= 1 =>
        /\ CallReturned => reqs[idx] = fails + 1
        /\ CallFailed   => reqs[idx] = max_retries /\ fails = max_retries

\* C2, as stated: one call of validate_crop never makes more than
\* max_retries requests, whatever max_retries is (none at all when
\* max_retries is zero or less).
C2_AtMostMaxRetries ==
    \A i \in DOMAIN reqs : reqs[i] <= Max(0, max_retries)

\* C2, amended: one call of validate_crop never makes more than
\* max(1, max_retries) requests: the first request is always made.
C2_AtMostMaxRetriesOrOne ==
    \A i \in DOMAIN reqs : reqs[i] <= Max(1, max_retries)

\* A call that used its whole budget of at least two requests.
C2_Witness ==
    CallFailed /\ max_retries >= 2 /\ reqs[idx] = max_retries

\* The waits 1, 2, 4, 8, 16, 30, 30, ... of the claim.
ExpectedWait(n) == IF n <= 5 THEN <<1, 2, 4, 8, 16>>[n] ELSE 30

\* C3: the wait after failed attempt n is min(2^(n-1), 30), and there is
\* exactly one wait between two attempts of a call: none after the attempt
\* that succeeded, none after the final failed attempt.
C3_Backoff ==
    /\ \A n \in 1..Len(slept) : slept[n] = ExpectedWait(n)
    /\ idx >= 1 => Len(slept) = IF pc = "loop" THEN attempt ELSE attempt - 1

\* A call that failed for good after waiting 30 s.
C3_Witness ==
    CallFailed /\ Len(slept) >= 6 /\ slept[6] = 30 /\ reqs[idx] = Len(slept) + 1

\* C4: the exception that leaves validate_crop is the one the last attempt
\* raised, of the kind it was raised with.
C4_LastErrorUnchanged ==
    CallFailed => result = RaiseOut(exc) /\ exc # NoExc

\* All attempts used up, the first and the last having failed differently.
C4_Witness ==
    /\ CallFailed /\ max_retries >= 2 /\ attempt = max_retries
    /\ first_kind = "RequestException" /\ exc.kind = "ValueError"
    /\ result.exc.kind = "ValueError"

\* C5: no transport or parsing failure leaves validate_crop while attempts
\* remain (every failure of the model is one of the two).
C5_FailuresRetried ==
    CallFailed => attempt >= max_retries

\* C6: validate_batch works through the items in order, each with its own
\* budget; the list returned has the response of item i at place i; a
\* failure leaves at once, with no list and no request for a later item.
C6_Batch ==
    /\ \A i \in 1..Len(items) :
          /\ i > idx => reqs[i] = 0
          /\ i < idx => reqs[i] >= 1
    /\ (CallFailed /\ Caught(exc) /\ max_retries >= 1) => reqs[idx] = max_retries
    /\ Len(responses) = IF pc \in {"batch", "done"} THEN idx ELSE idx - 1
    /\ \A i \in 1..Len(responses) :
          responses[i].rationale = [some |-> TRUE, s |-> items[i].crop_bytes]
    /\ pc = "done" => result = ReturnList(responses) /\ Len(responses) = Len(items)
    /\ pc = "failed" => result.kind = "raise" /\ result.value = <<>>
    /\ pc \notin {"done", "failed"} => result = NoResult

\* The second item fails after its full budget, the first having used its own.
C6_Witness ==
    /\ CallFailed /\ idx = 2 /\ max_retries >= 2
    /\ reqs[1] = max_retries /\ reqs[2] = max_retries
    /\ Len(responses) = 1

\* C7: a response whose status is outside 2xx is a transport failure: its
\* body never reaches _parse_candidate, so no attempt succeeds on it.
C7_NonSuccessNeverParsed ==
    (parsed_last /\ pc = "batch") => (200 <= http.status /\ http.status <= 299)

(***************************************************************************)
(* Claims about _parse_candidate (SpecParse).                              *)
(***************************************************************************)
\* The JSON document of a layout whose body is one document.
BodyDoc(l) == l.body[1].doc
HasDoc(l)  == l.struct = "text" /\ Len(l.body) = 1 /\ l.body[1].ch = "JSON"

\* A JSON number (true and false are not numbers), and its value in hundredths.
IsJsonNumber(v) == v.t \in {"int", "float"}
JsonNumberValue(v) == IF v.t = "int" THEN 100 * v.n ELSE v.n

\* A JSON object with a string prediction_label and a numeric confidence.
WellFormed(d) ==
    d.t = "dict" /\ d.prediction_label.t = "str" /\ IsJsonNumber(d.confidence)

\* Bare, or wrapped in an opening and a closing fence.
BareOrFenced(l) == (l.open = "none") <=> ~l.close

\* C8: a well-formed answer, bare or fenced, is returned field by field: the
\* label, the confidence unchanged, the rationale when it is a string.
C8_ParseWellFormed ==
    (p_state = "done" /\ HasDoc(p_shape) /\ WellFormed(BodyDoc(p_shape))
        /\ BareOrFenced(p_shape))
    => /\ p_out.ok
       /\ p_out.resp.prediction_label = BodyDoc(p_shape).prediction_label.s
       /\ p_out.resp.confidence = JsonNumberValue(BodyDoc(p_shape).confidence)
       /\ p_out.resp.rationale =
            IF BodyDoc(p_shape).rationale.t = "str"
            THEN [some |-> TRUE, s |-> BodyDoc(p_shape).rationale.s]
            ELSE NoRationale

\* A json-fenced answer with whitespace around it, a confidence above 1 and
\* a rationale that is not a string.
C8_Witness ==
    /\ p_state = "done" /\ HasDoc(p_shape) /\ WellFormed(BodyDoc(p_shape))
    /\ p_shape.open = "json" /\ p_shape.close /\ p_shape.lead = 1 /\ p_shape.pre = 1
    /\ BodyDoc(p_shape).confidence = PyFloat(150)
    /\ BodyDoc(p_shape).rationale = PyInt(3)
    /\ p_out.ok /\ p_out.resp.confidence = 150 /\ p_out.resp.rationale = NoRationale

\* The fence-stripped text of a layout, and whether it is malformed: not
\* valid JSON, or JSON without a string prediction_label or without a
\* numeric confidence.
StrippedText(l) == StripFences(Strip(RenderText(l)))
Malformed(l) ==
    /\ l.struct = "text"
    /\ Strip(RenderText(l)) # <<>>
    /\ \/ ~JsonLoads(StrippedText(l)).ok
       \/ ~WellFormed(JsonLoads(StrippedText(l)).doc)

\* C9: malformed output never yields a response: _parse_candidate fails with
\* ValueError in every such case.
C9_MalformedRejected ==
    (p_state = "done" /\ Malformed(p_shape))
    => ~p_out.ok /\ p_out.exc.kind = "ValueError"

(***************************************************************************)
(* Claims about iter_annotations (SpecIter).                               *)
(***************************************************************************)
Dangling(d, ann) ==
    ann.image_id \notin DOMAIN d.images \/ ann.category_id \notin DOMAIN d.categories

\* C10: the triples come one per annotation in the stored order, each with
\* the image and category the annotation names; the first annotation with a
\* dangling reference makes the generator fail with a lookup error, and
\* nothing is yielded for it or after it.
C10_IterAnnotations ==
    /\ \A k \in 1..Len(it_yielded) :
          /\ it_yielded[k].annotation = ds.annotations[k]
          /\ it_yielded[k].image.id = ds.annotations[k].image_id
          /\ it_yielded[k].category.id = ds.annotations[k].category_id
          /\ ~Dangling(ds, ds.annotations[k])
    /\ it_state = "suspended" => Len(it_yielded) = it_pos
    /\ it_state = "exhausted" => Len(it_yielded) = Len(ds.annotations)
    /\ it_state = "raised" =>
          /\ it_error.kind = "KeyError"
          /\ Len(it_yielded) = it_pos - 1
          /\ Dangling(ds, ds.annotations[it_pos])
    /\ it_state # "raised" => it_error = NoExc

\* The generator failed at a dangling annotation after yielding, with
\* annotations left behind it.
C10_Witness ==
    /\ it_state = "raised" /\ Len(it_yielded) >= 1
    /\ Len(ds.annotations) > it_pos
    /\ ~Dangling(ds, ds.annotations[it_pos + 1])

(***************************************************************************)
(* SpecLoad: load_coco_dataset reading one annotation entry of a COCO      *)
(* file.  The loop over the entries treats every entry alone, so one entry *)
(* shows what happens to each.  A decoded JSON value that may hold a list  *)
(* is a record                                                             *)
(*   t: NoneType | int | float | dict | list | absent                      *)
(*   n: the number (a float's value in hundredths)                         *)
(*   items: the elements of a list                                         *)
(***************************************************************************)
MaxCoords == 4      \* the longest flat coordinate list
MaxPolys  == 1      \* the most polygons of a source segmentation

JNone       == [t |-> "NoneType", n |-> 0, items |-> <<>>]
JInt(n)     == [t |-> "int", n |-> n, items |-> <<>>]
JFloat(h)   == [t |-> "float", n |-> h, items |-> <<>>]
JDict       == [t |-> "dict", n |-> 0, items |-> <<>>]
JList(xs)   == [t |-> "list", n |-> 0, items |-> xs]
JAbsent     == [t |-> "absent", n |-> 0, items |-> <<>>]

\* entry.get("segmentation"): None when the entry has no such key.
EntryGet(v) == IF v.t = "absent" THEN JNone ELSE v

\* Mutant: every non-empty list is wrapped, whatever its first element.
normalized_segmentationEager(segmentation) ==
    IF segmentation.t = "list" /\ segmentation.items # <<>>
    THEN JList(<<segmentation>>)
    ELSE segmentation

\* The normalisation of load_coco_dataset: a non-empty list whose first
\* element is a number is wrapped into a list of one polygon.
normalized_segmentation(segmentation) ==
    IF /\ segmentation.t = "list"
       /\ segmentation.items # <<>>
       /\ IsIntOrFloat(segmentation.items[1])
    THEN JList(<<segmentation>>)
    ELSE segmentation

\* The source segmentations tried.
FlatLists ==
    {JList(xs) : xs \in UNION { [1..n -> {JInt(8), JFloat(2450)}] : n \in 1..MaxCoords }}
PolygonLists ==
    {JList(ps) : ps \in UNION { [1..n -> FlatLists \cup {JList(<<>>)}] : n \in 0..MaxPolys }}
SourceSegmentations ==
    FlatLists \cup PolygonLists \cup {JAbsent, JNone, JDict}

\* load_coco_dataset, for the annotation entry of the file.
load_coco_dataset ==
    /\ l_state = "ready"
    /\ l_stored' = normalized_segmentation(EntryGet(l_src))
    /\ l_state' = "done"
    /\ UNCHANGED l_src
    /\ UNCHANGED <<retryVars, parseVars, iterVars, cropVars, runVars, sumVars>>

InitLoadSpec ==
    /\ RetryIdle /\ ParseIdle /\ IterIdle
    /\ CropIdle /\ RunIdle /\ SummaryIdle
    /\ l_src \in SourceSegmentations
    /\ l_state = "ready"
    /\ l_stored = JNone
NextLoad == load_coco_dataset
SpecLoad == InitLoadSpec /\ [][NextLoad]_vars

(***************************************************************************)
(* Claims about load_coco_dataset (SpecLoad).                              *)
(***************************************************************************)
\* A flat list of numbers, and a list of polygons.
IsFlatNumeric(v) ==
    /\ v.t = "list" /\ v.items # <<>>
    /\ \A i \in 1..Len(v.items) : v.items[i].t \in {"int", "float"}
IsPolygonList(v) ==
    /\ v.t = "list"
    /\ \A i \in 1..Len(v.items) :
          v.items[i].t = "list"
          /\ \A j \in 1..Len(v.items[i].items) : v.items[i].items[j].t \in {"int", "float"}

\* C11: a source segmentation that is one flat list of numbers S is stored
\* as [S], one polygon with the coordinates of S; a source segmentation that
\* is a list of polygons is stored as it is; normalising a stored
\* segmentation again changes nothing.
C11_Normalized ==
    l_state = "done" =>
        /\ IsFlatNumeric(l_src) =>
              /\ l_stored.t = "list" /\ Len(l_stored.items) = 1
              /\ l_stored.items[1] = l_src
        /\ IsPolygonList(l_src) => l_stored = l_src
        /\ normalized_segmentation(l_stored) = l_stored

C11_Witness ==
    /\ l_state = "done"
    /\ IsFlatNumeric(l_src) /\ Len(l_src.items) = 4
    /\ l_stored = JList(<<l_src>>)

(***************************************************************************)
(* SpecCrop: crop_annotation applied to one image, annotation and config.  *)
(* A coordinate of an annotation is a Python number; the model counts it   *)
(* in halves of a pixel, so 3 stands for 1.5.  Pixel positions and sizes   *)
(* are whole numbers.  Every pixel of the source image is its own          *)
(* position, so a crop shows where each of its pixels came from.           *)
(***************************************************************************)
MaxDim == 2         \* the largest width and height of a generated image

\* Mutant: int(v) rounds up to the next whole number.
IntOfCeiling(h) == (h + 1) \div 2

\* int(v) of a number given in halves: truncation toward zero.
IntOf(h) == IF h >= 0 THEN h \div 2 ELSE -((-h) \div 2)

\* The number v, a whole number, in halves.
Whole(v) == 2 * v

SetMin(S) == CHOOSE m \in S : \A e \in S : m <= e
SetMax(S) == CHOOSE m \in S : \A e \in S : m >= e

\* Annotation.has_bbox and Annotation.has_polygon.  None and the empty list
\* are both the empty sequence: the code tests them by truthiness only.
has_bbox(annotation)    == annotation.bbox # <<>> /\ Len(annotation.bbox) = 4
has_polygon(annotation) == annotation.segmentation # <<>>

NoBox == <<0, 0, 0, 0>>

\* _polygon_bbox: the values at even (0-based) indexes are xs, the others ys.
polygon_bbox(segments) ==
    LET At(parity) ==
            UNION {{segments[k][i] : i \in {j \in 1..Len(segments[k]) : j % 2 = parity}} :
                   k \in 1..Len(segments)}
        xs == At(1)
        ys == At(0)
    IN  IF xs = {} \/ ys = {}
        THEN [kind |-> "raise", exc |-> Exc("ValueError", "Polygon segmentation is empty"),
              box |-> NoBox]
        ELSE [kind |-> "ok", exc |-> NoExc,
              box |-> <<SetMin(xs), SetMin(ys), SetMax(xs), SetMax(ys)>>]

\* _expand_box
expand_box(left, top, right, bottom, padding, width, height) ==
    LET pad == Max(0, padding) IN
    <<Max(IntOf(left) - pad, 0),
      Max(IntOf(top) - pad, 0),
      Min(IntOf(right) + pad, width),
      Min(IntOf(bottom) + pad, height)>>

\* The pixel positions of an image of the given size.
Positions(size) == (0..(size[1] - 1)) \X (0..(size[2] - 1))

\* A pixel that Image.crop fills in because it lies outside the source.
Blank == <<-1, -1>>

\* Image.crop(box) of Pillow.  A box whose right edge lies left of its left
\* edge, or whose bottom lies above its top, raises ValueError in the
\* releases that check it (strict) and gives an image with no pixels in the
\* others.
image_crop(image, box, strict) ==
    IF strict /\ (box[3] < box[1] \/ box[4] < box[2])
    THEN [kind |-> "raise", exc |-> Exc("ValueError", "Coordinate is less than its opposite"),
          size |-> <<0, 0>>, pixels |-> <<>>]
    ELSE LET size == <<Max(box[3] - box[1], 0), Max(box[4] - box[2], 0)>> IN
         [kind |-> "ok", exc |-> NoExc, size |-> size,
          pixels |-> [q \in Positions(size) |->
                        IF /\ box[1] + q[1] \in 0..(image.width - 1)
                           /\ box[2] + q[2] \in 0..(image.height - 1)
                        THEN <<box[1] + q[1], box[2] + q[2]>>
                        ELSE Blank]]

\* Mutant: the points are not translated by the crop's corner.
points_ofUntranslated(segment, left_i, top_i) ==
    [v \in 1..(Len(segment) \div 2) |-> <<segment[2 * v - 1], segment[2 * v]>>]

\* The points handed to draw.polygon for one segment: its vertices
\* translated by the crop's corner (halves).
points_of(segment, left_i, top_i) ==
    [v \in 1..(Len(segment) \div 2) |->
        <<segment[2 * v - 1] - Whole(left_i), segment[2 * v] - Whole(top_i)>>]

\* ImageDraw.polygon(points, fill=255) of Pillow on a mask of the given
\* size, for the polygons of the model: rectangles with whole corners and
\* sides parallel to the axes.  Pillow fills such a rectangle with its
\* border: the pixels from the smallest to the largest x and y.
draw_polygon(points, size) ==
    LET px == {points[v][1] : v \in DOMAIN points}
        py == {points[v][2] : v \in DOMAIN points}
    IN  {q \in Positions(size) :
            /\ SetMin(px) <= Whole(q[1]) /\ Whole(q[1]) <= SetMax(px)
            /\ SetMin(py) <= Whole(q[2]) /\ Whole(q[2]) <= SetMax(py)}

\* The mask: the pixels some segment painted with 255.
mask_of(segmentation, left_i, top_i, size) ==
    UNION {IF points_of(segmentation[k], left_i, top_i) # <<>>
           THEN draw_polygon(points_of(segmentation[k], left_i, top_i), size)
           ELSE {} : k \in 1..Len(segmentation)}

NoAlpha == <<>>

CropOut(kind, stage, e, region, box, size, mode, pixels, alpha) ==
    [kind |-> kind, stage |-> stage, exc |-> e, region |-> region, box |-> box,
     size |-> size, mode |-> mode, pixels |-> pixels, alpha |-> alpha]
CropRaise(stage, e, region, box) ==
    CropOut("raise", stage, e, region, box, <<0, 0>>, "none", <<>>, NoAlpha)
NoCropOut == CropOut("none", "none", NoExc, NoBox, NoBox, <<0, 0>>, "none", <<>>, NoAlpha)

\* Mutant: a polygon, when present, decides the region before the bbox.
source_regionPolygonFirst(annotation) ==
    IF has_polygon(annotation)
    THEN polygon_bbox(annotation.segmentation)
    ELSE IF has_bbox(annotation)
    THEN [kind |-> "ok", exc |-> NoExc,
          box |-> <<annotation.bbox[1], annotation.bbox[2],
                    annotation.bbox[1] + annotation.bbox[3],
                    annotation.bbox[2] + annotation.bbox[4]>>]
    ELSE [kind |-> "raise", exc |-> Exc("ValueError", "missing bbox and polygon"),
          box |-> NoBox]

\* The source region crop_annotation chooses (halves), or the ValueError.
source_region(annotation) ==
    IF has_bbox(annotation)
    THEN [kind |-> "ok", exc |-> NoExc,
          box |-> <<annotation.bbox[1], annotation.bbox[2],
                    annotation.bbox[1] + annotation.bbox[3],
                    annotation.bbox[2] + annotation.bbox[4]>>]
    ELSE IF has_polygon(annotation)
    THEN polygon_bbox(annotation.segmentation)
    ELSE [kind |-> "raise", exc |-> Exc("ValueError", "missing bbox and polygon"),
          box |-> NoBox]

\* crop_annotation(image, annotation, config); strict is the Pillow release.
crop_annotation(image, annotation, config, strict) ==
    LET reg == source_region(annotation) IN
    IF reg.kind = "raise" THEN CropRaise("geometry", reg.exc, NoBox, NoBox) ELSE
    LET box  == expand_box(reg.box[1], reg.box[2], reg.box[3], reg.box[4],
                           config.padding, image.width, image.height)
        crop == image_crop(image, box, strict)
    IN
    IF crop.kind = "raise" THEN CropRaise("crop", crop.exc, reg.box, box) ELSE
    IF ~(has_polygon(annotation) /\ config.mask_polygon)
    THEN CropOut("image", "done", NoExc, reg.box, box, crop.size, "RGB", crop.pixels, NoAlpha)
    ELSE IF \E k \in 1..Len(annotation.segmentation) : Len(annotation.segmentation[k]) % 2 = 1
    THEN CropRaise("mask", Exc("IndexError", "list index out of range"), reg.box, box)
    ELSE LET mask == mask_of(annotation.segmentation, box[1], box[2], crop.size) IN
         CropOut("image", "done", NoExc, reg.box, box, crop.size, "RGBA", crop.pixels,
                 [q \in Positions(crop.size) |->
                     IF q \in mask THEN 255
                     ELSE IF config.background_color[4] > 0 THEN config.background_color[4]
                     ELSE 0])

\* The inputs tried.  x and w of a bbox run over halves, y and h over whole
\* numbers; a region may lie partly or wholly outside the image, to the
\* left, to the right or below.
Images == {[width |-> w, height |-> h] : w \in 1..MaxDim, h \in 1..MaxDim}
BBoxes ==
    {<<x, Whole(y), w, Whole(h)>> :
        x \in (-3)..(Whole(MaxDim) + 1), y \in {0, MaxDim},
        w \in 0..Whole(MaxDim), h \in 0..MaxDim}
Rect(x1, y1, x2, y2) ==
    <<Whole(x1), Whole(y1), Whole(x2), Whole(y1), Whole(x2), Whole(y2), Whole(x1), Whole(y2)>>
Rects ==
    {Rect(q[1], q[2], q[3], q[4]) :
        q \in {c \in (0..MaxDim) \X (0..MaxDim) \X (0..MaxDim) \X (0..MaxDim) :
                  c[1] < c[3] /\ c[2] < c[4]}}
Segmentations ==
    {<<>>, << <<>> >>} \cup {<<r>> : r \in Rects} \cup {<<r, Rect(0, 0, 1, 1)>> : r \in Rects}
BothBoxes == {<<0, 0, Whole(1), Whole(1)>>, <<1, 0, 3, Whole(MaxDim)>>}
Annotations ==
    {[bbox |-> b, segmentation |-> <<>>] : b \in BBoxes}
        \cup {[bbox |-> <<>>, segmentation |-> g] : g \in Segmentations}
        \cup {[bbox |-> b, segmentation |-> g] : b \in BothBoxes, g \in Segmentations}
CropConfig(padding, mask_polygon, bg_alpha) ==
    [padding |-> padding, mask_polygon |-> mask_polygon,
     background_color |-> <<0, 0, 0, bg_alpha>>]
CropConfigs ==
    {CropConfig(p, m, a) : p \in {-1, 0, 1, Whole(MaxDim)}, m \in BOOLEAN, a \in {0, 128}}

\* The two crops of tests/test_image_utils.py.
TestBBoxCase ==
    [image |-> [width |-> 64, height |-> 64],
     annotation |-> [bbox |-> <<Whole(16), Whole(16), Whole(32), Whole(32)>>,
                     segmentation |-> <<>>],
     config |-> CropConfig(0, FALSE, 0)]
TestPolygonCase ==
    [image |-> [width |-> 32, height |-> 32],
     annotation |-> [bbox |-> <<>>, segmentation |-> <<Rect(8, 8, 24, 24)>>],
     config |-> CropConfig(2, TRUE, 0)]

\* One call of crop_annotation.
crop_annotation_call ==
    /\ c_state = "ready"
    /\ \E strict \in BOOLEAN : c_out' = crop_annotation(c_image, c_ann, c_cfg, strict)
    /\ c_state' = "done"
    /\ UNCHANGED <<c_image, c_ann, c_cfg>>
    /\ UNCHANGED <<retryVars, parseVars, iterVars, loadVars, runVars, sumVars>>

InitCropSpec ==
    /\ RetryIdle /\ ParseIdle /\ IterIdle
    /\ LoadIdle /\ RunIdle /\ SummaryIdle
    /\ \/ c_image \in Images /\ c_ann \in Annotations /\ c_cfg \in CropConfigs
       \/ \E inp \in {TestBBoxCase, TestPolygonCase} :
             /\ c_image = inp.image
             /\ c_ann = inp.annotation
             /\ c_cfg = inp.config
    /\ c_state = "ready"
    /\ c_out = NoCropOut
NextCrop == crop_annotation_call
SpecCrop == InitCropSpec /\ [][NextCrop]_vars

(***************************************************************************)
(* Claims about crop_annotation (SpecCrop).                                *)
(***************************************************************************)
\* The call chose a region and computed the crop rectangle.
BoxComputed == c_state = "done" /\ c_out.stage # "geometry"

\* C12: for every image size, source region and padding, the crop rectangle
\* (left, top, right, bottom) of _expand_box has its four edges inside the
\* image: 0 <= left <= width, 0 <= right <= width, 0 <= top <= height and
\* 0 <= bottom <= height.
C12_BoxInsideImage ==
    BoxComputed =>
        /\ 0 <= c_out.box[1] /\ c_out.box[1] <= c_image.width
        /\ 0 <= c_out.box[3] /\ c_out.box[3] <= c_image.width
        /\ 0 <= c_out.box[2] /\ c_out.box[2] <= c_image.height
        /\ 0 <= c_out.box[4] /\ c_out.box[4] <= c_image.height

\* round(v) of Python for a number v >= 0 given in halves: a tie goes to the
\* even neighbour.
RoundOf(h) ==
    IF h % 2 = 0 THEN h \div 2
    ELSE IF ((h - 1) \div 2) % 2 = 0 THEN (h - 1) \div 2 ELSE (h + 1) \div 2

\* The annotation has a bbox that lies inside the image, and the padding is 0.
BBoxInsideUnpadded ==
    /\ c_state = "done"
    /\ has_bbox(c_ann)
    /\ c_cfg.padding = 0
    /\ c_ann.bbox[1] >= 0 /\ c_ann.bbox[2] >= 0
    /\ c_ann.bbox[3] >= 0 /\ c_ann.bbox[4] >= 0
    /\ c_ann.bbox[1] + c_ann.bbox[3] <= Whole(c_image.width)
    /\ c_ann.bbox[2] + c_ann.bbox[4] <= Whole(c_image.height)

\* The crop has a pixel (0, 0), and it is the source pixel at (px, py).
FirstPixelIs(px, py) ==
    (c_out.size[1] >= 1 /\ c_out.size[2] >= 1) => c_out.pixels[<<0, 0>>] = <<px, py>>

Vertices(segmentation) ==
    UNION {{<<segmentation[k][2 * v - 1], segmentation[k][2 * v]>> :
               v \in 1..(Len(segmentation[k]) \div 2)} : k \in 1..Len(segmentation)}

\* C14: with a bbox the region is (x, y, x + w, y + h), also when a polygon
\* is present too; without a bbox and with a segmentation the region is
\* (min x, min y, max x, max y) over all vertices of all polygons; with
\* neither, or with no vertex, the call fails with a geometry error
\* (ValueError) and returns no image.
C14_RegionRule ==
    c_state = "done" =>
        LET b == c_ann.bbox
            V == Vertices(c_ann.segmentation)
        IN  /\ b # <<>> =>
                  /\ c_out.stage # "geometry"
                  /\ c_out.region = <<b[1], b[2], b[1] + b[3], b[2] + b[4]>>
            /\ (b = <<>> /\ V # {}) =>
                  /\ c_out.stage # "geometry"
                  /\ c_out.region = <<SetMin({p[1] : p \in V}), SetMin({p[2] : p \in V}),
                                      SetMax({p[1] : p \in V}), SetMax({p[2] : p \in V})>>
            /\ (b = <<>> /\ V = {}) =>
                  /\ c_out.kind = "raise" /\ c_out.stage = "geometry"
                  /\ c_out.exc.kind = "ValueError"
                  /\ c_out.size = <<0, 0>> /\ c_out.mode = "none"

C14_Witness ==
    /\ c_state = "done"
    /\ c_ann.bbox # <<>> /\ Len(c_ann.segmentation) = 2
    /\ c_out.kind = "image"
    /\ c_out.region[1] = 1 /\ c_out.region[3] = 4

\* The source point (x, y), in halves, lies inside polygon number k of the
\* annotation or on its border.  The polygons are rectangles with sides
\* parallel to the axes.
InsidePolygon(x, y, k) ==
    LET V == Vertices(<<c_ann.segmentation[k]>>) IN
    /\ V # {}
    /\ SetMin({p[1] : p \in V}) <= x /\ x <= SetMax({p[1] : p \in V})
    /\ SetMin({p[2] : p \in V}) <= y /\ y <= SetMax({p[2] : p \in V})

\* C15: the crop has an alpha channel exactly when the annotation has
\* polygon geometry and config.mask_polygon is true; with a fully
\* transparent background colour the alpha of a crop pixel is 255 if the
\* pixel lies inside at least one polygon translated by (-left, -top) and 0
\* otherwise; the square [[8,8,24,8,24,24,8,24]] with padding 2 gives a
\* 20x20 RGBA crop whose pixel (0, 0) has alpha 0; without polygon geometry
\* or with masking disabled the crop has no alpha channel.
C15_AlphaMask ==
    (c_state = "done" /\ c_out.kind = "image") =>
        LET masked == c_ann.segmentation # <<>> /\ c_cfg.mask_polygon
            left   == c_out.box[1]
            top    == c_out.box[2]
        IN  /\ masked <=> c_out.mode = "RGBA"
            /\ ~masked => (c_out.mode = "RGB" /\ c_out.alpha = NoAlpha)
            /\ (masked /\ c_cfg.background_color[4] = 0) =>
                  \A q \in Positions(c_out.size) :
                      c_out.alpha[q] =
                          IF \E k \in 1..Len(c_ann.segmentation) :
                                InsidePolygon(2 * (q[1] + left), 2 * (q[2] + top), k)
                          THEN 255 ELSE 0
            /\ (/\ c_ann = TestPolygonCase.annotation
                /\ c_cfg = TestPolygonCase.config
                /\ c_image = TestPolygonCase.image) =>
                  /\ c_out.size = <<20, 20>> /\ c_out.mode = "RGBA"
                  /\ c_out.alpha[<<0, 0>>] = 0

C15_Witness ==
    /\ c_state = "done"
    /\ c_ann = TestPolygonCase.annotation /\ c_cfg = TestPolygonCase.config
    /\ c_out.mode = "RGBA" /\ c_out.size = <<20, 20>>
    /\ c_out.alpha[<<0, 0>>] = 0 /\ c_out.alpha[<<10, 10>>] = 255

(***************************************************************************)
(* SpecRun: one run of run_validation or of the demo's run_demo over one   *)
(* dataset.  Both keep image_cache, load an image on its first use inside  *)
(* the try block and close every cached image in the finally block.  The   *)
(* image load, the crop and the verification are open: each may succeed or *)
(* raise.  run_validation lets every exception through; run_demo records   *)
(* the exception of a crop or of a verification and goes on.               *)
(***************************************************************************)
\* The datasets of a run: image MaxId may be missing, and an annotation may
\* name the missing category MaxId + 1.
RunDatasets ==
    {CocoDataset(ni, MaxId, refs) :
        ni \in {MaxId - 1, MaxId},
        refs \in UNION { [1..n -> (1..MaxId) \X {1, MaxId + 1}] : n \in 0..MaxAnns }}

\* The exception of what one pass of the loop body meets:
\* ok, load_fail, crop_fail or verify_fail.
StepException(outcome) ==
    CASE outcome = "load_fail"   -> Exc("OSError", "cannot open or decode the image")
      [] outcome = "crop_fail"   -> Exc("ValueError", "crop failed")
      [] outcome = "verify_fail" -> Exc("RuntimeError", "verification failed")
      [] OTHER                   -> NoExc

\* Mutant: the cache is never consulted.
InCacheNever(image_id, image_cache) == FALSE

\* image_info.id in image_cache
InCache(image_id, image_cache) == image_id \in image_cache

\* Whether the exception of this outcome leaves the for loop: every
\* exception in run_validation; in run_demo only that of the image load,
\* which is outside the inner try.
Escapes(mode, outcome) ==
    /\ outcome # "ok"
    /\ mode = "validation" \/ outcome = "load_fail"

\* One pass of the for loop inside the try block: the generator gives the
\* next triple or raises, the image is loaded unless cached, then the crop
\* and the verification run and an entry is recorded.
run_loop_step ==
    /\ r_state = "running"
    /\ IF r_pos >= Len(r_ds.annotations)
       THEN /\ r_state' = "finally"
            /\ UNCHANGED <<r_pos, r_cache, r_decodes, r_entries, r_exc>>
       ELSE LET r == iter_body(r_ds, r_ds.annotations[r_pos + 1]) IN
            /\ r_pos' = r_pos + 1
            /\ IF r.kind = "raise"
               THEN /\ r_exc' = r.exc
                    /\ r_state' = "finally"
                    /\ UNCHANGED <<r_cache, r_decodes, r_entries>>
               ELSE LET id == r.triple.image.id IN
                    \E outcome \in {"ok", "load_fail", "crop_fail", "verify_fail"} :
                        /\ outcome = "load_fail" => ~InCache(id, r_cache)
                        /\ r_decodes' = IF InCache(id, r_cache) THEN r_decodes
                                        ELSE [r_decodes EXCEPT ![id] = @ + 1]
                        /\ r_cache' = IF outcome = "load_fail" THEN r_cache
                                      ELSE r_cache \cup {id}
                        /\ IF Escapes(r_mode, outcome)
                           THEN /\ r_exc' = StepException(outcome)
                                /\ r_state' = "finally"
                                /\ UNCHANGED r_entries
                           ELSE /\ r_entries' = r_entries + 1
                                /\ UNCHANGED <<r_exc, r_state>>
    /\ UNCHANGED <<r_mode, r_ds, r_closed>>
    /\ UNCHANGED <<retryVars, parseVars, iterVars, loadVars, cropVars, sumVars>>

\* The finally block: every cached image is closed; then the run goes on to
\* its summary, or the exception in flight leaves the function.
run_finally ==
    /\ r_state = "finally"
    /\ r_closed' = r_cache
    /\ r_state' = IF r_exc = NoExc THEN "done" ELSE "failed"
    /\ UNCHANGED <<r_mode, r_ds, r_pos, r_cache, r_decodes, r_entries, r_exc>>
    /\ UNCHANGED <<retryVars, parseVars, iterVars, loadVars, cropVars, sumVars>>

InitRunSpec ==
    /\ RetryIdle /\ ParseIdle /\ IterIdle
    /\ LoadIdle /\ CropIdle /\ SummaryIdle
    /\ r_mode \in {"validation", "demo"}
    /\ r_ds \in RunDatasets
    /\ r_pos = 0
    /\ r_state = "running"
    /\ r_cache = {}
    /\ r_decodes = [i \in 1..MaxId |-> 0]
    /\ r_closed = {}
    /\ r_entries = 0
    /\ r_exc = NoExc
NextRun ==
    \/ run_loop_step
    \/ run_finally
SpecRun == InitRunSpec /\ [][NextRun]_vars

(***************************************************************************)
(* Claims about run_validation and run_demo (SpecRun).                     *)
(***************************************************************************)
\* C16: during one run every image_id is decoded at most once, however many
\* annotations name it; no cached image is closed while the run is going,
\* and when the run has ended, normally or with an exception (dangling
\* reference, image load, crop or verification), every cached image is
\* closed.
C16_CachedOnceReleasedAtEnd ==
    r_state # "idle" =>
        /\ \A i \in DOMAIN r_decodes : r_decodes[i] <= 1
        /\ r_state \in {"running", "finally"} => r_closed = {}
        /\ r_state \in {"done", "failed"} => r_closed = r_cache

C16_Witness ==
    /\ r_state = "failed" /\ r_exc.kind = "KeyError"
    /\ r_entries = 2 /\ r_cache = {1} /\ r_decodes[1] = 1
    /\ r_closed = {1}

(***************************************************************************)
(* SpecSummary: _build_summary applied to one list of entries.  An entry   *)
(* carries is_match and its confidence in hundredths.  A quotient of the   *)
(* summary is kept as a fraction in lowest terms; the rounding of the      *)
(* floating-point division is left out.                                    *)
(***************************************************************************)
MaxEntries == 3     \* the longest list of entries

RECURSIVE Gcd(_, _)
Gcd(a, b) == IF b = 0 THEN a ELSE Gcd(b, a % b)

\* a / b for b # 0 and a >= 0, in lowest terms.
TrueDiv(a, b) == [num |-> a \div Gcd(a, b), den |-> b \div Gcd(a, b)]

\* The float 0.0
Zero == [num |-> 0, den |-> 1]

ValidationEntry(is_match, confidence) == [is_match |-> is_match, confidence |-> confidence]

\* Mutant: every entry counts as a match.
count_matchesAll(entries) == Len(entries)

\* sum(1 for entry in entries if entry.is_match)
count_matches(entries) == Cardinality({i \in 1..Len(entries) : entries[i].is_match})

\* sum(entry.confidence for entry in entries)
RECURSIVE sum_confidence(_)
sum_confidence(entries) ==
    IF entries = <<>> THEN 0
    ELSE entries[1].confidence + sum_confidence(Tail(entries))

\* _build_summary
build_summary(entries) ==
    LET total      == Len(entries)
        matches    == count_matches(entries)
        mismatches == total - matches
        avg_conf   == IF total # 0 THEN TrueDiv(sum_confidence(entries), total) ELSE Zero
        accuracy   == IF total # 0 THEN TrueDiv(matches, total) ELSE Zero
    IN  [total |-> total, matches |-> matches, mismatches |-> mismatches,
         accuracy |-> accuracy, average_confidence |-> avg_conf]

NoSummary == [total |-> -1, matches |-> -1, mismatches |-> -1,
              accuracy |-> Zero, average_confidence |-> Zero]

\* The entries tried.
EntryLists ==
    UNION { [1..n -> {ValidationEntry(m, c) : m \in BOOLEAN, c \in {0, 50, 95}}] :
            n \in 0..MaxEntries }

\* One call of _build_summary.
build_summary_call ==
    /\ s_state = "ready"
    /\ s_summary' = build_summary(s_entries)
    /\ s_state' = "done"
    /\ UNCHANGED s_entries
    /\ UNCHANGED <<retryVars, parseVars, iterVars, loadVars, cropVars, runVars>>

InitSummarySpec ==
    /\ RetryIdle /\ ParseIdle /\ IterIdle
    /\ LoadIdle /\ CropIdle /\ RunIdle
    /\ s_entries \in EntryLists
    /\ s_state = "ready"
    /\ s_summary = NoSummary
NextSummary == build_summary_call
SpecSummary == InitSummarySpec /\ [][NextSummary]_vars

(***************************************************************************)
(* Claims about _build_summary (SpecSummary).                              *)
(***************************************************************************)
\* The confidences of the first n entries, added up.
RECURSIVE ConfidenceUpTo(_)
ConfidenceUpTo(n) == IF n = 0 THEN 0 ELSE ConfidenceUpTo(n - 1) + s_entries[n].confidence

\* The fraction q equals a / b.
IsQuotient(q, a, b) == q.den > 0 /\ q.num * b = a * q.den

\* C17: total is the number of entries, matches the number of entries with
\* is_match, mismatches is total - matches, accuracy is matches / total and
\* average_confidence is the sum of the confidences / total; for the empty
\* list both quotients are 0.0, no division by zero being made; for
\* [match, match, mismatch] the accuracy is 2/3.
C17_Summary ==
    s_state = "done" =>
        LET n == Len(s_entries)
            m == Cardinality({i \in 1..n : s_entries[i].is_match})
        IN  /\ s_summary.total = n
            /\ s_summary.matches = m
            /\ s_summary.mismatches = n - m
            /\ s_summary.matches + s_summary.mismatches = s_summary.total
            /\ n > 0 => /\ IsQuotient(s_summary.accuracy, m, n)
                        /\ IsQuotient(s_summary.average_confidence, ConfidenceUpTo(n), n)
            /\ n = 0 => /\ s_summary.accuracy = Zero
                        /\ s_summary.average_confidence = Zero
            /\ (n = 3 /\ s_entries[1].is_match /\ s_entries[2].is_match
                      /\ ~s_entries[3].is_match)
                  => s_summary.accuracy = [num |-> 2, den |-> 3]

C17_Witness ==
    /\ s_state = "done"
    /\ Len(s_entries) = 3
    /\ s_entries[1].is_match /\ s_entries[2].is_match /\ ~s_entries[3].is_match
    /\ s_summary.accuracy = [num |-> 2, den |-> 3]
    /\ s_summary.mismatches = 1
====
